---- MODULE Spec2Model ----
(***************************************************************************)
(* Model of the voice agent's orchestration kernel:                        *)
(*   core/event_bus.py    EventBus (emit, listen)                          *)
(*   core/agent_core.py   AgentCore (start, stop, dispatch loop, chat)     *)
(*   modules/...          the loops of the five configured modules         *)
(* Every action is the code one task runs between two suspension points    *)
(* of the asyncio scheduler.                                               *)
(***************************************************************************)
EXTENDS Integers, Sequences, FiniteSets, TLC

(* ---------------- bounds of the model ---------------- *)
MaxEmits == 3
MaxExternal == 2
MaxClock == 3
MaxFeedClock == 6
MaxChunk == 2

(* ---------------- configuration (main.py) ---------------- *)
WebCam == 1
VAD == 2
STT == 3
TTS == 4
Speakers == 5
NumModules == 5
Dispatch == 6

Modules == 1..NumModules
TaskIds == 1..Dispatch

(* asyncio.Queue() is built without maxsize: 0 means unbounded. *)
QueueMaxSize == 0

(* silence_timeout_ms, in clock ticks *)
SilenceTimeout == 2

None == "None"

(* last_speech_time = None *)
NoTime == -1

(* speech_buffer's maxlen, in samples *)
MaxBuffer == 6

(* vad_buffer's maxlen, in samples *)
VadWindow == 5

(* The int16 value of one unit of a sample *)
SampleUnit == 100

(* chunk_size: the samples one stream.read returns *)
ChunkSize == 1

VARIABLES
  subscribers,      \* EventBus.subscribers: type -> list of queues
  default_queue,    \* EventBus.default_queue
  nextId,           \* number of the next event emitted (ghost identity)
  extEmits,         \* emits made by publishers outside the configured modules
  running,          \* ModuleBase.running, per module
  tasks,            \* AgentCore.tasks
  taskPc,           \* suspension point of every task
  cancelReq,        \* Task.cancel() was called on the task
  startPc,          \* position of AgentCore.start()
  stopPc,           \* position of AgentCore.stop()
  device,           \* per module: a device handle was created by start()
  calls,            \* ghost: lifecycle operations in the order executed
  subQ,             \* per task: index of the queue its listen(T) waits on
  received,         \* ghost: the events returned to each task by listen, in order
  firstListen,      \* ghost: ListenMark(T) at the task's first listen(T) call
  cancelledAt,      \* ghost: the suspension point at which a task was cancelled
  gatewayResults,   \* ghost: what each backend.chat call returned, or that it raised
  dispEvent,        \* the event the dispatch loop is processing
  dispErrors,       \* ghost: ids of the events whose processing raised
  chat_history,     \* AgentCore.chat_history
  gatewayCalls,     \* ghost: ids of the transcription events sent to backend.chat
  speech_detected,  \* WakeWordVADModule.speech_detected
  last_speech_time, \* WakeWordVADModule.last_speech_time
  speech_buffer,    \* WakeWordVADModule.speech_buffer
  vad_buffer,       \* WakeWordVADModule.vad_buffer
  vad_audio,        \* the argument of _process_audio_chunk_for_vad
  vad_result,       \* ghost: what _process_audio_chunk_for_vad computed and returned
  clock,            \* time.time(), in ticks
  lastChunk         \* ghost: the last chunk processed, and whether any was speech

busVars == <<subscribers, default_queue, nextId, extEmits>>
lifeVars == <<running, device, tasks, taskPc, cancelReq, startPc, stopPc, calls>>
loopVars == <<subQ, received, firstListen>>
ghostVars == <<cancelledAt, gatewayResults>>
coreVars == <<dispEvent, dispErrors, chat_history, gatewayCalls>>
segVars == <<speech_detected, last_speech_time, speech_buffer, vad_buffer, clock, lastChunk,
             vad_audio, vad_result>>
vars == <<busVars, lifeVars, loopVars, coreVars, segVars, ghostVars>>

(* ======================= core/event_bus.py ======================= *)

EventTypes == {"frame", "speech_start", "audio_ready_for_stt", "transcription",
               "agent_response", "wake_word_detected", "audio_chunk"}

(* Payload shapes: None, a well-formed dict, a dict whose text or audio is  *)
(* empty, a dict whose text is a non-string value, a dict without text and *)
(* a dict whose text is made of spaces.                                    *)
Payloads == {None, "valid", "blank", "malformed", "notext", "space"}

NewQueue == [hist |-> <<>>, rd |-> 0]

QLen(q) == Len(q.hist) - q.rd

(* mutant: the queues are built with maxsize=1 *)
Full_Bounded(q) == QLen(q) >= 1

(* asyncio.Queue.full() *)
Full(q) == QueueMaxSize > 0 /\ QLen(q) >= QueueMaxSize

Put(q, ev) == [q EXCEPT !.hist = Append(@, ev)]

QHead(q) == q.hist[q.rd + 1]

QGet(q) == [q EXCEPT !.rd = @ + 1]

(* The event dict of emit, line 11; id, src and ref are ghost fields: the   *)
(* emit's number, the publishing task and the event it answers.            *)
Event(T, p, src, ref) == [type |-> T, payload |-> p, id |-> nextId, src |-> src, ref |-> ref]

(* mutant: the event is put on the queues of every type *)
EmitSubscribers_Broadcast(subs, ev) ==
  [T \in DOMAIN subs |-> [i \in 1..Len(subs[T]) |-> Put(subs[T][i], ev)]]

(* mutant: only the queue registered last for the type gets the event *)
EmitSubscribers_Latest(subs, ev) ==
  IF ev.type \in DOMAIN subs
    THEN [subs EXCEPT ![ev.type] =
            [i \in 1..Len(@) |-> IF i = Len(@) THEN Put(@[i], ev) ELSE @[i]]]
    ELSE subs

(* emit, lines 14-16: one put on every queue registered for the type *)
EmitSubscribers(subs, ev) ==
  IF ev.type \in DOMAIN subs
    THEN [subs EXCEPT ![ev.type] = [i \in 1..Len(@) |-> Put(@[i], ev)]]
    ELSE subs

(* mutant: the default queue gets only the events no subscriber asked for *)
EmitDefault_Skip(dq, ev) == IF ev.type = "audio_ready_for_stt" THEN dq ELSE Put(dq, ev)

(* emit, line 19: one put on the default queue *)
EmitDefault(dq, ev) == Put(dq, ev)

(* `await queue.put(event)` suspends the emitter while the queue is full *)
PutBlocks(subs, dq, T) ==
  \/ Full(dq)
  \/ T \in DOMAIN subs /\ \E i \in 1..Len(subs[T]) : Full(subs[T][i])

CanEmit(T) == nextId <= MaxEmits /\ ~PutBlocks(subscribers, default_queue, T)

(* mutant: the new queue is filled with the events of the type emitted so  *)
(* far                                                                     *)
ListenRegister_Replay(subs, T) ==
  LET q == [hist |-> SelectSeq(default_queue.hist, LAMBDA e : e.type = T), rd |-> 0]
  IN IF T \in DOMAIN subs
       THEN [subs EXCEPT ![T] = Append(@, q)]
       ELSE subs @@ (T :> <<q>>)

(* listen(T), lines 28-31: a new queue is registered on every call *)
ListenRegister(subs, T) ==
  IF T \in DOMAIN subs
    THEN [subs EXCEPT ![T] = Append(@, NewQueue)]
    ELSE subs @@ (T :> <<NewQueue>>)

NumQueues(subs, T) == IF T \in DOMAIN subs THEN Len(subs[T]) ELSE 0

(* ======================= core/agent_core.py: start, stop ======================= *)

Log(op, m) == [op |-> op, m |-> m]

(* Where each module's start() can raise, and whether it has created its   *)
(* device handle by then.                                                  *)
HandleBeforeRaise(i) == i \in {WebCam, VAD, Speakers}

HasDevice(i) == i \in {WebCam, VAD, TTS, Speakers}

(* mutant: the exception of a module's start() is swallowed *)
AfterStart_Swallow(i, ok) == <<"task", i>>

(* start(), line 24: nothing catches an exception of `await module.start()` *)
AfterStart(i, ok) == IF ok THEN <<"task", i>> ELSE <<"failed", i>>

(* mutant: the event handler task is created before the last module is started *)
AfterCreate_Early(i) == IF i < NumModules - 1 THEN <<"start", i + 1>> ELSE <<"dispatch", 0>>

(* start(), lines 23 and 29: the next module, then the event handler task *)
AfterCreate(i) == IF i < NumModules THEN <<"start", i + 1>> ELSE <<"dispatch", 0>>

(* mutant: a failed start() stops the modules it had started *)
RunningAfterRaise_Rollback(i) == [j \in Modules |-> FALSE]

(* start(), line 24: the exception leaves start() at once, and no module   *)
(* sets self.running before its start() has succeeded: the flags are left  *)
(* as they are.                                                            *)
RunningAfterRaise(i) == running

(* start(), line 24: await module.start() *)
StartModule(i) ==
  /\ UNCHANGED ghostVars
  /\ startPc = <<"start", i>>
  /\ \E ok \in BOOLEAN :
       IF ok
         THEN /\ running' = [running EXCEPT ![i] = TRUE]
              /\ device' = [device EXCEPT ![i] = HasDevice(i)]
              /\ calls' = calls \o <<Log("start", i), Log("started", i)>>
              /\ startPc' = AfterStart(i, TRUE)
         ELSE /\ running' = RunningAfterRaise(i)
              /\ device' = [device EXCEPT ![i] = HandleBeforeRaise(i)]
              /\ calls' = calls \o <<Log("start", i), Log("start_raised", i)>>
              /\ startPc' = AfterStart(i, FALSE)
  /\ UNCHANGED <<tasks, taskPc, cancelReq, stopPc>>
  /\ UNCHANGED <<busVars, loopVars, coreVars, segVars>>

(* Where a task created by create_task is suspended before its first turn. *)
(* The WebCam, VAD and Speakers loops enter their `while self.running:`    *)
(* exactly as when their sleep returns, and the dispatch loop its listen() *)
(* on the default queue; the first turn of the STT and TTS loops registers *)
(* a queue.                                                                *)
InitialPc(t) ==
  CASE t \in {STT, TTS} -> "new"
    [] t = Dispatch -> "listen"
    [] OTHER -> "sleep"

(* start(), lines 25-26: create_task(module.loop()); tasks.append *)
CreateLoopTask(i) ==
  /\ UNCHANGED ghostVars
  /\ startPc = <<"task", i>>
  /\ tasks' = Append(tasks, i)
  /\ taskPc' = [taskPc EXCEPT ![i] = InitialPc(i)]
  /\ calls' = Append(calls, Log("create_task", i))
  /\ startPc' = AfterCreate(i)
  /\ UNCHANGED <<running, device, cancelReq, stopPc>>
  /\ UNCHANGED <<busVars, loopVars, coreVars, segVars>>

(* start(), lines 29-30: the event handler task *)
CreateDispatchTask ==
  /\ UNCHANGED ghostVars
  /\ startPc = <<"dispatch", 0>>
  /\ tasks' = Append(tasks, Dispatch)
  /\ taskPc' = [taskPc EXCEPT ![Dispatch] = InitialPc(Dispatch)]
  /\ calls' = Append(calls, Log("create_task", Dispatch))
  /\ startPc' = <<"done", 0>>
  /\ UNCHANGED <<running, device, cancelReq, stopPc>>
  /\ UNCHANGED <<busVars, loopVars, coreVars, segVars>>

(* stop() is called once start() has returned or raised *)
StopCall ==
  /\ UNCHANGED ghostVars
  /\ startPc[1] \in {"done", "failed"}
  /\ stopPc = <<"idle", 0>>
  /\ stopPc' = <<"stop", 1>>
  /\ UNCHANGED <<running, device, tasks, taskPc, cancelReq, startPc, calls>>
  /\ UNCHANGED <<busVars, loopVars, coreVars, segVars>>

(* mutant: the tasks are cancelled inside the loop over the modules *)
AfterStop_CancelFirst(i, raised) == IF raised THEN <<"failed", i>> ELSE <<"cancel", 0>>

(* What follows a module's stop() in AgentCore.stop(), lines 35-36:        *)
(* nothing catches an exception of `await m.stop()`.                       *)
AfterStop(i, raised) ==
  IF raised THEN <<"failed", i>>
  ELSE IF i < NumModules THEN <<"stop", i + 1>> ELSE <<"cancel", 0>>

(* stop(), line 36: await m.stop(); releasing a device handle can raise *)
StopModule(i) ==
  /\ UNCHANGED ghostVars
  /\ stopPc = <<"stop", i>>
  /\ running' = [running EXCEPT ![i] = FALSE]
  /\ \E raised \in BOOLEAN :
       /\ raised => device[i]
       /\ calls' = calls \o <<Log("stop", i),
                              Log(IF raised THEN "stop_raised" ELSE "stopped", i)>>
       /\ stopPc' = AfterStop(i, raised)
  /\ device' = [device EXCEPT ![i] = IF i = WebCam THEN FALSE ELSE @]
  /\ UNCHANGED <<tasks, taskPc, cancelReq, startPc>>
  /\ UNCHANGED <<busVars, loopVars, coreVars, segVars>>

(* stop(), lines 38-39: t.cancel() for every task of the task list *)
CancelTasks ==
  /\ UNCHANGED ghostVars
  /\ stopPc = <<"cancel", 0>>
  /\ cancelReq' = [t \in TaskIds |->
                     cancelReq[t] \/ (\E k \in 1..Len(tasks) : tasks[k] = t /\ taskPc[t] # "done")]
  /\ calls' = calls \o [k \in 1..Len(tasks) |-> Log("cancel", tasks[k])]
  /\ stopPc' = <<"done", 0>>
  /\ UNCHANGED <<running, device, tasks, taskPc, startPc>>
  /\ UNCHANGED <<busVars, loopVars, coreVars, segVars>>

(* ======================= task cancellation ======================= *)

(* The scheduler is cooperative and no start() or stop() of the configured  *)
(* modules suspends: AgentCore.start() and AgentCore.stop() run to their   *)
(* end before any task gets a turn.                                        *)
Yielded == startPc[1] \in {"done", "failed"} /\ stopPc[1] \in {"idle", "done", "failed"}

(* mutant: CancelledError is an Exception, as before Python 3.8 *)
IsException_Any(exc) == TRUE

(* asyncio.CancelledError derives from BaseException, every other error    *)
(* raised in a loop from Exception.                                        *)
IsException(exc) == exc # "CancelledError"

Catches(class, exc) == class = exc \/ (class = "Exception" /\ IsException(exc))

Clause(class, target) == [class |-> class, target |-> target]

(* mutant: _handle_transcription has no `except Exception` *)
HandlerClauses_NoCatch == <<>>

(* _handle_transcription, lines 82-91: the handler returns after logging *)
HandlerClauses == <<Clause("Exception", "listen")>>

(* mutant: the dispatch loop has no `except Exception` *)
DispatchLoopClauses_NoCatch == <<Clause("CancelledError", "done")>>

(* _event_handler_loop, lines 131-135 *)
DispatchLoopClauses ==
  <<Clause("CancelledError", "done"), Clause("Exception", "errsleep")>>

(* The except clauses around each suspension point, innermost first, with  *)
(* the pc each continues at: a `break` ends the loop ("done"), a handler   *)
(* that returns lets the loop go on.  Nothing encloses the sleep of an     *)
(* except branch, nor the sleeps of the WebCam and Speakers loops.         *)
ExceptClauses(t, pc) ==
  CASE t = Dispatch /\ pc = "listen" -> DispatchLoopClauses
    [] t = Dispatch /\ pc = "gateway" ->
         HandlerClauses \o DispatchLoopClauses
    [] t \in {STT, TTS} /\ pc = "listen" ->
         <<Clause("CancelledError", "done"), Clause("Exception", "errsleep")>>
    [] t \in {STT, TTS} /\ pc = "service" ->
         <<Clause("Exception", "listen"),
           Clause("CancelledError", "done"), Clause("Exception", "errsleep")>>
    [] t = VAD /\ pc = "sleep" ->
         <<Clause("Exception", "errsleep")>>
    [] OTHER -> <<>>

(* Where an exception raised at a suspension point continues: at the first *)
(* clause that catches it, or out of the coroutine, which ends the task.   *)
RECURSIVE Propagate(_, _)
Propagate(clauses, exc) ==
  IF clauses = <<>> THEN "done"
  ELSE IF Catches(Head(clauses).class, exc) THEN Head(clauses).target
  ELSE Propagate(Tail(clauses), exc)

(* Task.cancel() throws CancelledError into the task at its suspension point *)
CancelTarget(t, pc) == Propagate(ExceptClauses(t, pc), "CancelledError")

ObserveCancel(t) ==
  /\ Yielded
  /\ cancelReq[t]
  /\ taskPc[t] \notin {"none", "done"}
  /\ taskPc' = [taskPc EXCEPT ![t] = CancelTarget(t, taskPc[t])]
  /\ cancelledAt' = [cancelledAt EXCEPT ![t] = taskPc[t]]
  /\ UNCHANGED gatewayResults
  /\ UNCHANGED <<running, device, tasks, cancelReq, startPc, stopPc, calls>>
  /\ UNCHANGED <<busVars, loopVars, coreVars, segVars>>

Runnable(t, pcs) == Yielded /\ taskPc[t] \in pcs /\ ~cancelReq[t]

(* ======================= core/agent_core.py: dispatch loop ======================= *)

(* payload.get("text"), line 124: whether the dict has a text, and the text *)
(* as a sequence of characters.                                            *)
HasText(p) == p \in {"valid", "blank", "space"}

TextOf(p) ==
  CASE p = "valid" -> <<" ", "h", "i">>
    [] p = "space" -> <<" ", " ">>
    [] OTHER -> <<>>

(* str.strip() *)
RECURSIVE LStrip(_)
LStrip(text) ==
  IF text # <<>> /\ Head(text) = " " THEN LStrip(Tail(text)) ELSE text

Reverse(text) == [k \in 1..Len(text) |-> text[Len(text) + 1 - k]]

Strip(text) == Reverse(LStrip(Reverse(LStrip(text))))

(* mutant: only the empty string is refused *)
IsBlankText_EmptyOnly(p) == HasText(p) /\ TextOf(p) = <<>>

(* _handle_transcription, line 43: `not text or not text.strip()` *)
IsBlankText(p) == ~HasText(p) \/ TextOf(p) = <<>> \/ Strip(TextOf(p)) = <<>>

(* mutant: the agent's own responses are handled as transcriptions *)
HandlesAsTranscription_Responses(T) == T \in {"transcription", "agent_response"}

(* _event_handler_loop, line 123 *)
HandlesAsTranscription(T) == T = "transcription"

(* What lines 98-129 do with one event: "ok" (nothing but logging), "chat" *)
(* (backend.chat is awaited) or "raise".                                   *)
DispatchOutcome(ev) ==
  CASE ev.type = "audio_ready_for_stt" ->
         IF ev.payload \in {None, "malformed"} THEN "raise" ELSE "ok"
    [] HandlesAsTranscription(ev.type) ->
         CASE ev.payload = None -> "raise"
           [] ev.payload = "malformed" -> "raise"
           [] IsBlankText(ev.payload) -> "ok"
           [] OTHER -> "chat"
    [] OTHER -> "ok"

(* mutant: the handler is started as a task of its own and the loop goes   *)
(* on listening                                                            *)
DispatchAfter_Spawn(outcome) ==
  CASE outcome = "raise" -> Propagate(ExceptClauses(Dispatch, "listen"), "Exception")
    [] OTHER -> "listen"

(* Where the dispatch loop suspends next; an error of the body is raised   *)
(* inside the try of lines 96-129.                                         *)
DispatchAfter(outcome) ==
  CASE outcome = "raise" -> Propagate(ExceptClauses(Dispatch, "listen"), "Exception")
    [] outcome = "chat" -> "gateway"
    [] OTHER -> "listen"

(* One iteration of _event_handler_loop up to its next suspension point *)
DispatchReceive ==
  /\ UNCHANGED ghostVars
  /\ Runnable(Dispatch, {"listen"})
  /\ QLen(default_queue) > 0
  /\ LET ev == QHead(default_queue)
         outcome == DispatchOutcome(ev)
     IN /\ default_queue' = QGet(default_queue)
        /\ received' = [received EXCEPT ![Dispatch] = Append(@, ev)]
        /\ taskPc' = [taskPc EXCEPT ![Dispatch] = DispatchAfter(outcome)]
        /\ dispErrors' = IF outcome = "raise" THEN dispErrors \cup {ev.id} ELSE dispErrors
        /\ dispEvent' = IF outcome = "chat" THEN ev ELSE dispEvent
        /\ gatewayCalls' = IF outcome = "chat" THEN Append(gatewayCalls, ev.id) ELSE gatewayCalls
  /\ UNCHANGED <<subscribers, nextId, extEmits, chat_history, subQ, firstListen>>
  /\ UNCHANGED <<running, device, tasks, cancelReq, startPc, stopPc, calls>>
  /\ UNCHANGED segVars

(* asyncio.sleep(0.1) of the except branch returns, line 135 *)
DispatchWake ==
  /\ UNCHANGED ghostVars
  /\ Runnable(Dispatch, {"errsleep"})
  /\ taskPc' = [taskPc EXCEPT ![Dispatch] = "listen"]
  /\ UNCHANGED <<running, device, tasks, cancelReq, startPc, stopPc, calls>>
  /\ UNCHANGED <<busVars, loopVars, coreVars, segVars>>

Turn(role, content) == [role |-> role, content |-> content]

(* The three effects a gateway call has on the bus and the history: none,  *)
(* a user turn, a user turn with a reply.                                  *)
GatewayEffects == {"raise", "dict_error", "dict_response"}

(* What `await self.backend.chat(...)` does: it raises, or returns a dict   *)
(* whose "response" is the JSON body of the reply: null, a dict with an    *)
(* "error", with a "response", with both or with neither, a string or a    *)
(* number.                                                                 *)
GatewayResults == {"raise", "null", "dict_error", "dict_response", "dict_both",
                   "dict_other", "text", "number"}

(* mutant: the user turn is not recorded *)
UserTurnAppended_Never(result) == FALSE

(* _handle_transcription, line 58: reached when backend.chat has returned *)
UserTurnAppended(result) == result # "raise"

(* _handle_transcription, lines 61-65: the branch that handles a reply *)
RepliesWith(result) == result = "dict_response"

(* Whether an exception is raised inside the try of lines 46-80: by the     *)
(* call, or by the tests of lines 63-66 on a body that is a number or a    *)
(* string holding the word "response".                                     *)
RaisesInTry(result) == result \in {"raise", "text", "number"}

(* mutant: the assistant turn is appended for an error body too *)
AssistantTurns_OnError(result, id) ==
  IF result \in {"dict_response", "dict_error"} THEN <<Turn("assistant", id)>> ELSE <<>>

(* _handle_transcription, line 69 *)
AssistantTurns(result, id) ==
  IF RepliesWith(result) THEN <<Turn("assistant", id)>> ELSE <<>>

(* mutant: an agent_response is published whatever the gateway returned *)
Publishes_Always(result) == result # "raise"

(* _handle_transcription, lines 71-73 *)
Publishes(result) == RepliesWith(result)

(* _handle_transcription after backend.chat returned or raised, lines 57-91 *)
GatewayReturn(result) ==
  /\ UNCHANGED cancelledAt
  /\ Runnable(Dispatch, {"gateway"})
  /\   LET id == dispEvent.id
           ev == Event("agent_response", "valid", Dispatch, id)
           userTurns == IF UserTurnAppended(result) THEN <<Turn("user", id)>> ELSE <<>>
       IN /\ chat_history' = chat_history \o userTurns \o AssistantTurns(result, id)
          /\ gatewayResults' = Append(gatewayResults, result)
          /\ IF Publishes(result)
               THEN /\ CanEmit("agent_response")
                    /\ subscribers' = EmitSubscribers(subscribers, ev)
                    /\ default_queue' = EmitDefault(default_queue, ev)
                    /\ nextId' = nextId + 1
               ELSE UNCHANGED <<subscribers, default_queue, nextId>>
          /\ taskPc' = [taskPc EXCEPT ![Dispatch] =
                          IF RaisesInTry(result)
                            THEN Propagate(ExceptClauses(Dispatch, "gateway"), "Exception")
                            ELSE "listen"]
  /\ UNCHANGED <<extEmits, dispEvent, dispErrors, gatewayCalls>>
  /\ UNCHANGED <<running, device, tasks, cancelReq, startPc, stopPc, calls>>
  /\ UNCHANGED <<loopVars, segVars>>

(* ======================= modules/ai: the STT and TTS loops ======================= *)

Subscribers == {STT, TTS}

(* The type each loop passes to event_bus.listen *)
ListenType(t) == IF t = STT THEN "audio_ready_for_stt" ELSE "agent_response"

(* `while self.running:` followed by `await self.event_bus.listen(T)`:     *)
(* the pc at the top of the loop and the subscriber table after it.        *)
LoopTopPc(t) == IF running[t] THEN "listen" ELSE "done"

LoopTopSubs(t, subs) == IF running[t] THEN ListenRegister(subs, ListenType(t)) ELSE subs

LoopTopQ(t, subs) == IF running[t] THEN NumQueues(subs, ListenType(t)) + 1 ELSE subQ[t]

(* ghost: the number from which the events of type T emitted after this    *)
(* moment are numbered: one more than the last one of type T emitted       *)
ListenMark(T) ==
  LET past == SelectSeq(default_queue.hist, LAMBDA e : e.type = T)
  IN IF past = <<>> THEN 0 ELSE past[Len(past)].id + 1

(* The loop task runs for the first time *)
SubscriberBegin(t) ==
  /\ UNCHANGED ghostVars
  /\ Runnable(t, {"new"})
  /\ taskPc' = [taskPc EXCEPT ![t] = LoopTopPc(t)]
  /\ subscribers' = LoopTopSubs(t, subscribers)
  /\ subQ' = [subQ EXCEPT ![t] = LoopTopQ(t, subscribers)]
  /\ firstListen' = [firstListen EXCEPT ![t] =
                        IF running[t] THEN ListenMark(ListenType(t)) ELSE @]
  /\ UNCHANGED <<default_queue, nextId, extEmits, received>>
  /\ UNCHANGED <<running, device, tasks, cancelReq, startPc, stopPc, calls>>
  /\ UNCHANGED <<coreVars, segVars>>

(* What the loop body does with the received event before its next await:  *)
(* "raise", "continue" (empty audio or text), "call" (the service is       *)
(* awaited) or "skip" (the STT client is gone: no transcription).          *)
SubscriberOutcome(t, ev) ==
  CASE ev.payload \in {None, "malformed"} -> "raise"
    [] ev.payload = "blank" -> "continue"
    [] t = STT /\ ~running[STT] -> "skip"
    [] OTHER -> "call"

(* listen(T) returns: queue.get() on the queue registered by this call *)
SubscriberReceive(t) ==
  /\ UNCHANGED ghostVars
  /\ Runnable(t, {"listen"})
  /\ LET T == ListenType(t)
         q == subscribers[T][subQ[t]]
     IN /\ QLen(q) > 0
        /\ LET ev == QHead(q)
               outcome == SubscriberOutcome(t, ev)
               subs1 == [subscribers EXCEPT ![T][subQ[t]] = QGet(q)]
               again == outcome \in {"continue", "skip"}
           IN /\ received' = [received EXCEPT ![t] = Append(@, ev)]
              /\ taskPc' = [taskPc EXCEPT ![t] =
                              CASE outcome = "raise" ->
                                     Propagate(ExceptClauses(t, "listen"), "Exception")
                                [] outcome = "call" -> "service"
                                [] OTHER -> LoopTopPc(t)]
              /\ subscribers' = IF again THEN LoopTopSubs(t, subs1) ELSE subs1
              /\ subQ' = [subQ EXCEPT ![t] = IF again THEN LoopTopQ(t, subs1) ELSE @]
  /\ UNCHANGED <<default_queue, nextId, extEmits, firstListen>>
  /\ UNCHANGED <<running, device, tasks, cancelReq, startPc, stopPc, calls>>
  /\ UNCHANGED <<coreVars, segVars>>

(* The awaited service call returns (Whisper for STT, ElevenLabs for TTS), *)
(* with or without a result; the STT loop emits the transcription.         *)
SubscriberServiceReturn(t) ==
  /\ UNCHANGED ghostVars
  /\ Runnable(t, {"service"})
  /\ \E gotResult \in BOOLEAN :
       LET ev == Event("transcription", "valid", STT, received[STT][Len(received[STT])].id)
           emits == t = STT /\ gotResult
           subs1 == IF emits THEN EmitSubscribers(subscribers, ev) ELSE subscribers
       IN /\ emits => CanEmit("transcription")
          /\ subscribers' = LoopTopSubs(t, subs1)
          /\ subQ' = [subQ EXCEPT ![t] = LoopTopQ(t, subs1)]
          /\ default_queue' = IF emits THEN EmitDefault(default_queue, ev) ELSE default_queue
          /\ nextId' = IF emits THEN nextId + 1 ELSE nextId
  /\ taskPc' = [taskPc EXCEPT ![t] = LoopTopPc(t)]
  /\ UNCHANGED <<extEmits, received, firstListen>>
  /\ UNCHANGED <<running, device, tasks, cancelReq, startPc, stopPc, calls>>
  /\ UNCHANGED <<coreVars, segVars>>

(* asyncio.sleep(0.1) of the except branch returns *)
SubscriberWake(t) ==
  /\ UNCHANGED ghostVars
  /\ Runnable(t, {"errsleep"})
  /\ taskPc' = [taskPc EXCEPT ![t] = LoopTopPc(t)]
  /\ subscribers' = LoopTopSubs(t, subscribers)
  /\ subQ' = [subQ EXCEPT ![t] = LoopTopQ(t, subscribers)]
  /\ UNCHANGED <<default_queue, nextId, extEmits, received, firstListen>>
  /\ UNCHANGED <<running, device, tasks, cancelReq, startPc, stopPc, calls>>
  /\ UNCHANGED <<coreVars, segVars>>

(* ======================= modules/vision/web_cam.py ======================= *)

(* One iteration of WebCamModule.loop: read a frame, emit it, sleep *)
WebCamStep ==
  /\ UNCHANGED ghostVars
  /\ Runnable(WebCam, {"sleep"})
  /\ IF ~running[WebCam]
       THEN /\ taskPc' = [taskPc EXCEPT ![WebCam] = "done"]
            /\ UNCHANGED <<subscribers, default_queue, nextId>>
       ELSE /\ taskPc' = [taskPc EXCEPT ![WebCam] = "sleep"]
            /\ \E ret \in BOOLEAN :
                 LET ev == Event("frame", "valid", WebCam, 0)
                 IN IF ret
                      THEN /\ CanEmit("frame")
                           /\ subscribers' = EmitSubscribers(subscribers, ev)
                           /\ default_queue' = EmitDefault(default_queue, ev)
                           /\ nextId' = nextId + 1
                      ELSE UNCHANGED <<subscribers, default_queue, nextId>>
  /\ UNCHANGED <<extEmits>>
  /\ UNCHANGED <<running, device, tasks, cancelReq, startPc, stopPc, calls>>
  /\ UNCHANGED <<loopVars, coreVars, segVars>>

(* ======================= modules/audio_output/speakers.py ======================= *)

SpeakersStep ==
  /\ UNCHANGED ghostVars
  /\ Runnable(Speakers, {"sleep"})
  /\ taskPc' = [taskPc EXCEPT ![Speakers] = IF running[Speakers] THEN "sleep" ELSE "done"]
  /\ UNCHANGED <<running, device, tasks, cancelReq, startPc, stopPc, calls>>
  /\ UNCHANGED <<busVars, loopVars, coreVars, segVars>>

(* ======================= modules/audio_input/wake_word_vad.py ======================= *)

Min(a, b) == IF a < b THEN a ELSE b

(* ---------------- _process_audio_chunk_for_vad ---------------- *)

(* A sample is an int16 value, counted in units of SampleUnit: 5 is a loud  *)
(* sample (500), 1 a faint one (100).                                      *)
Samples == {-5, -1, 0, 1, 5}

(* The audio handed to _process_audio_chunk_for_vad: the samples of the     *)
(* analysis window, and whether a stray byte follows them (a byte count    *)
(* that is odd).                                                           *)
AudioInputs ==
  {[pcm |-> p, ragged |-> r] :
     p \in UNION {[1..n -> Samples] : n \in 0..VadWindow}, r \in BOOLEAN}

NoAudio == [pcm |-> <<>>, ragged |-> FALSE]

RECURSIVE SumSq(_)
SumSq(pcm) == IF pcm = <<>> THEN 0 ELSE Head(pcm) * Head(pcm) + SumSq(Tail(pcm))

(* lines 125-126 and 149: sqrt(mean((pcm / 32768) ** 2)) > vad_threshold,   *)
(* with vad_threshold = 0.01: sum(pcm^2) * 10^4 > n * 2^30, both sides     *)
(* divided by 16.                                                          *)
EnergyOk(pcm) == SumSq(pcm) * SampleUnit * SampleUnit * 625 > Len(pcm) * 67108864

(* line 129: np.sum((pcm[1:] >= 0) != (pcm[:-1] < 0)) *)
ZeroCrossings(pcm) ==
  Cardinality({i \in 1..(Len(pcm) - 1) : (pcm[i + 1] >= 0) # (pcm[i] < 0)})

(* lines 130 and 150: 0.1 < zero_crossings / (len(pcm) - 1) < 0.5, and a    *)
(* rate of 0.0 for a single sample                                         *)
ZcrOk(pcm) ==
  /\ Len(pcm) > 1
  /\ 10 * ZeroCrossings(pcm) > Len(pcm) - 1
  /\ 2 * ZeroCrossings(pcm) < Len(pcm) - 1

(* lines 137-140: the squared magnitude of every pair of samples *)
Magnitudes2(pcm) ==
  [j \in 1..(Len(pcm) \div 2) |->
     pcm[2 * j - 1] * pcm[2 * j - 1] + pcm[2 * j] * pcm[2 * j]]

(* lines 142-146 and 151: sum(i * mag[i]) / sum(mag) > 0.1 over the pairs   *)
(* i = 0, 1 of a window of at most five samples, 0.0 when the magnitudes   *)
(* sum to zero: 10 * mag[1] > mag[0] + mag[1], both sides squared.         *)
SpectralOk(pcm) ==
  LET m == Magnitudes2(pcm)
  IN Len(m) = 2 /\ 81 * m[2] > m[1]

CriteriaMet(energy_ok, zcr_ok, spectral_ok) ==
  (IF energy_ok THEN 1 ELSE 0) + (IF zcr_ok THEN 1 ELSE 0) + (IF spectral_ok THEN 1 ELSE 0)

(* mutant: the three criteria must all be met *)
IsSpeech_Unanimous(criteria_met) == criteria_met >= 3

(* line 154 *)
IsSpeech(criteria_met) == criteria_met >= 2

VadResult(energy_ok, zcr_ok, spectral_ok, zero_crossings, is_speech, raised) ==
  [returned |-> TRUE, energy_ok |-> energy_ok, zcr_ok |-> zcr_ok,
   spectral_ok |-> spectral_ok, zero_crossings |-> zero_crossings,
   is_speech |-> is_speech, raised |-> raised]

(* Before the function has returned *)
NoResult == [VadResult(FALSE, FALSE, FALSE, 0, FALSE, FALSE) EXCEPT !.returned = FALSE]

(* _process_audio_chunk_for_vad, lines 113-167: what it returns (is_speech) *)
(* with the values it computed on the way.  np.frombuffer raises on a byte *)
(* count that is odd; the except of line 163 returns False.                *)
ProcessAudioChunkForVad(audio) ==
  IF audio.ragged THEN VadResult(FALSE, FALSE, FALSE, 0, FALSE, TRUE)
  ELSE IF Len(audio.pcm) = 0 THEN VadResult(FALSE, FALSE, FALSE, 0, FALSE, FALSE)
  ELSE LET pcm == audio.pcm
           energy_ok == EnergyOk(pcm)
           zcr_ok == ZcrOk(pcm)
           spectral_ok == SpectralOk(pcm)
       IN VadResult(energy_ok, zcr_ok, spectral_ok, ZeroCrossings(pcm),
                    IsSpeech(CriteriaMet(energy_ok, zcr_ok, spectral_ok)), FALSE)

(* _process_audio_chunk_for_vad called on vad_audio returns *)
ClassifyAudio ==
  /\ ~vad_result.returned
  /\ vad_result' = ProcessAudioChunkForVad(vad_audio)
  /\ UNCHANGED vad_audio
  /\ UNCHANGED <<busVars, lifeVars, loopVars, coreVars, ghostVars>>
  /\ UNCHANGED <<speech_detected, last_speech_time, speech_buffer, vad_buffer, clock, lastChunk>>

(* ---------------- process_audio_chunk ---------------- *)

(* The samples of the chunk read by the seq-th read: sample k of the chunk  *)
(* is known by <<seq, k>>.                                                 *)
Chunk(seq, n) == [k \in 1..n |-> <<seq, k>>]

(* mutant: a full deque refuses the new samples *)
Extended_KeepOldest(buf, chunk, maxlen) ==
  SubSeq(buf \o chunk, 1, Min(Len(buf) + Len(chunk), maxlen))

(* deque.extend on a deque built with maxlen, lines 208 and 211: the oldest *)
(* samples fall out                                                        *)
Extended(buf, chunk, maxlen) ==
  LET all == buf \o chunk
  IN IF Len(all) <= maxlen THEN all ELSE SubSeq(all, Len(all) - maxlen + 1, Len(all))

(* What the classification of a window comes to: a decision, or an error *)
VadDecisions == {"speech", "silence"}

VadOutcomes == VadDecisions \cup {"raise"}

(* mutant: _process_audio_chunk_for_vad has no except *)
VadClauses_NoCatch == <<>>

(* _process_audio_chunk_for_vad, lines 163-167: `return False` *)
VadClauses == <<Clause("Exception", "return_false")>>

(* Where the call of line 219 continues: "return" with the decision,       *)
(* "return_false" from the except clause, or in the loop's except clause   *)
VadReturn(vad) ==
  IF vad = "raise"
    THEN Propagate(VadClauses \o ExceptClauses(VAD, "sleep"), "Exception")
    ELSE "return"

VadReturned(vad) == VadReturn(vad) \in {"return", "return_false"}

(* mutant: the end of speech is tested whatever the state *)
SpeechEndDue_NoState(is_speech, now) ==
  ~is_speech /\ now - last_speech_time >= SilenceTimeout

(* mutant: any silent chunk ends the speech *)
SpeechEndDue_AnySilence(is_speech, now) ==
  ~is_speech /\ speech_detected /\ last_speech_time \notin {NoTime, 0}

(* mutant: the silence must be longer than the timeout *)
SpeechEndDue_Strict(is_speech, now) ==
  /\ ~is_speech
  /\ speech_detected
  /\ last_speech_time \notin {NoTime, 0}
  /\ now - last_speech_time > SilenceTimeout

(* process_audio_chunk, lines 226-229: the silence has lasted long enough *)
SpeechEndDue(is_speech, now) ==
  /\ ~is_speech
  /\ speech_detected
  /\ last_speech_time \notin {NoTime, 0}
  /\ now - last_speech_time >= SilenceTimeout

(* mutant: every chunk classified as speech publishes speech_start *)
ChunkEmits_Repeat(is_speech, now, n) ==
  CASE is_speech -> "speech_start"
    [] SpeechEndDue(is_speech, now)
         /\ Extended(speech_buffer, Chunk(0, n), MaxBuffer) # <<>> -> "audio_ready_for_stt"
    [] OTHER -> None

(* The event process_audio_chunk emits for this chunk, or None *)
ChunkEmits(is_speech, now, n) ==
  CASE is_speech /\ ~speech_detected -> "speech_start"
    [] SpeechEndDue(is_speech, now)
         /\ Extended(speech_buffer, Chunk(0, n), MaxBuffer) # <<>> -> "audio_ready_for_stt"
    [] OTHER -> None

(* mutant: _handle_speech_end leaves speech_detected set *)
SpeechDetectedAfter_NoReset(is_speech, T) == is_speech \/ speech_detected

(* speech_detected after the chunk: set by line 172, reset by line 193 *)
SpeechDetectedAfter(is_speech, T) ==
  is_speech \/ (speech_detected /\ T # "audio_ready_for_stt")

(* mutant: _handle_speech_end leaves the time of the last speech recorded *)
LastSpeechTimeAfter_NoReset(is_speech, T, now) == IF is_speech THEN now ELSE last_speech_time

(* process_audio_chunk, line 223, and _handle_speech_end, line 194: the    *)
(* time of a chunk classified as speech is recorded, and forgotten when    *)
(* the utterance is published.                                             *)
LastSpeechTimeAfter(is_speech, T, now) ==
  CASE is_speech -> now
    [] T = "audio_ready_for_stt" -> NoTime
    [] OTHER -> last_speech_time

(* process_audio_chunk, lines 196-230, for a chunk of n samples read at     *)
(* time now, whose window the classifier decides as vad: the segmentation  *)
(* state and the event emitted.  lastChunk keeps the number of the chunk,  *)
(* the audio_data of the event and the number of the chunk that published  *)
(* the last speech_start.                                                  *)
ProcessAudioChunk(vad, now, n) ==
  LET is_speech == vad = "speech"
      T == IF VadReturned(vad) THEN ChunkEmits(is_speech, now, n) ELSE None
      ev == Event(T, IF T = "speech_start" THEN "blank" ELSE "valid", VAD, 0)
      seq == lastChunk.seq + 1
      buffer == Extended(speech_buffer, Chunk(seq, n), MaxBuffer)
  IN /\ clock' = now
     /\ vad_buffer' = Extended(vad_buffer, Chunk(seq, n), VadWindow)
     /\ lastChunk' = [is_speech |-> is_speech, now |-> now, size |-> n, emitted |-> T,
                       seq |-> seq,
                       heardSpeech |-> lastChunk.heardSpeech \/ is_speech,
                       vad |-> vad,
                       audio |-> IF T = "audio_ready_for_stt" THEN buffer ELSE <<>>,
                       startedAt |-> IF T = "speech_start" THEN seq ELSE lastChunk.startedAt]
     /\ speech_detected' = IF VadReturned(vad) THEN SpeechDetectedAfter(is_speech, T)
                           ELSE speech_detected
     /\ last_speech_time' = LastSpeechTimeAfter(is_speech, T, now)
     /\ speech_buffer' = IF T = "audio_ready_for_stt" THEN <<>> ELSE buffer
     /\ IF T # None
          THEN /\ CanEmit(T)
               /\ subscribers' = EmitSubscribers(subscribers, ev)
               /\ default_queue' = EmitDefault(default_queue, ev)
               /\ nextId' = nextId + 1
          ELSE UNCHANGED <<subscribers, default_queue, nextId>>
     /\ UNCHANGED <<vad_audio, vad_result>>

(* One iteration of WakeWordVADModule.loop, lines 234-244: read a chunk,    *)
(* process it, yield; the read raises, or the chunk is processed dt ticks  *)
(* after the last one and the classifier decides vad.                      *)
VADStep(vad, dt) ==
  /\ UNCHANGED ghostVars
  /\ Runnable(VAD, {"sleep", "errsleep"})
  /\ IF ~running[VAD]
       THEN /\ taskPc' = [taskPc EXCEPT ![VAD] = "done"]
            /\ UNCHANGED <<subscribers, default_queue, nextId, segVars>>
       ELSE \E readFails \in BOOLEAN :
              IF readFails
                THEN /\ taskPc' = [taskPc EXCEPT ![VAD] =
                                      Propagate(ExceptClauses(VAD, "sleep"), "Exception")]
                     /\ UNCHANGED <<subscribers, default_queue, nextId, segVars>>
                ELSE /\ clock + dt <= MaxClock
                     /\ taskPc' = [taskPc EXCEPT ![VAD] =
                                      IF VadReturned(vad) THEN "sleep" ELSE VadReturn(vad)]
                     /\ ProcessAudioChunk(vad, clock + dt, ChunkSize)
  /\ UNCHANGED <<extEmits>>
  /\ UNCHANGED <<running, device, tasks, cancelReq, startPc, stopPc, calls>>
  /\ UNCHANGED <<loopVars, coreVars>>

(* process_audio_chunk called with one chunk, at any time after the last    *)
(* one, whatever runs the module                                           *)
FeedChunk ==
  /\ \E vad \in VadDecisions, dt \in 1..(SilenceTimeout + 1), n \in 1..MaxChunk :
       /\ clock + dt <= MaxFeedClock
       /\ ProcessAudioChunk(vad, clock + dt, n)
  /\ UNCHANGED <<extEmits, lifeVars, loopVars, coreVars, ghostVars>>

(* ======================= publishers outside the configured modules ======================= *)

(* The events another publisher is taken to emit: a well-formed one, ones  *)
(* without payload, ones with empty or ill-typed fields, and one of a type *)
(* no loop listens to.  Well-formed transcriptions and agent responses are *)
(* emitted by the STT loop and the dispatch loop themselves.               *)
ExtEvents == {<<"audio_ready_for_stt", "valid">>, <<"audio_ready_for_stt", None>>,
              <<"transcription", "malformed">>, <<"agent_response", "blank">>,
              <<"wake_word_detected", None>>}

(* EventBus.emit(T, p) called by any other holder of the bus *)
ExternalEmit(T, p) ==
  /\ UNCHANGED ghostVars
  /\ Yielded
  /\ extEmits < MaxExternal
  /\ CanEmit(T)
  /\ LET ev == Event(T, p, 0, 0)
     IN /\ subscribers' = EmitSubscribers(subscribers, ev)
        /\ default_queue' = EmitDefault(default_queue, ev)
  /\ nextId' = nextId + 1
  /\ extEmits' = extEmits + 1
  /\ UNCHANGED <<lifeVars, loopVars, coreVars, segVars>>

(* The events a publisher of transcriptions is taken to emit: every shape   *)
(* of a transcription payload, and events of the other types, among them   *)
(* one (audio_chunk) the dispatch loop has no branch for.                  *)
ChatEvents == {<<"transcription", "valid">>, <<"transcription", "blank">>,
               <<"transcription", "space">>, <<"transcription", "notext">>,
               <<"transcription", None>>, <<"transcription", "malformed">>,
               <<"audio_ready_for_stt", "valid">>, <<"speech_start", "blank">>,
               <<"wake_word_detected", None>>, <<"frame", "valid">>,
               <<"audio_chunk", "valid">>}

(* ======================= the system ======================= *)

NoChunk == [is_speech |-> FALSE, now |-> 0, size |-> 0, emitted |-> None, heardSpeech |-> FALSE,
            seq |-> 0, vad |-> None, audio |-> <<>>, startedAt |-> 0]

NoEvent == [type |-> None, payload |-> None, id |-> 0, src |-> 0, ref |-> 0]

InitAudio(audios) ==
  /\ vad_audio \in audios
  /\ subscribers = <<>>
  /\ default_queue = NewQueue
  /\ nextId = 1
  /\ extEmits = 0
  /\ running = [i \in Modules |-> FALSE]
  /\ device = [i \in Modules |-> FALSE]
  /\ tasks = <<>>
  /\ taskPc = [t \in TaskIds |-> "none"]
  /\ cancelReq = [t \in TaskIds |-> FALSE]
  /\ startPc = <<"start", 1>>
  /\ stopPc = <<"idle", 0>>
  /\ calls = <<>>
  /\ subQ = [t \in TaskIds |-> 0]
  /\ received = [t \in TaskIds |-> <<>>]
  /\ firstListen = [t \in TaskIds |-> 0]
  /\ cancelledAt = [t \in TaskIds |-> None]
  /\ gatewayResults = <<>>
  /\ dispEvent = NoEvent
  /\ dispErrors = {}
  /\ chat_history = <<>>
  /\ gatewayCalls = <<>>
  /\ speech_detected = FALSE
  /\ last_speech_time = NoTime
  /\ speech_buffer = <<>>
  /\ vad_buffer = <<>>
  /\ vad_result = NoResult
  /\ clock = 0
  /\ lastChunk = NoChunk

Init == InitAudio({NoAudio})

StartSteps ==
  \/ \E i \in Modules : StartModule(i)
  \/ \E i \in Modules : CreateLoopTask(i)
  \/ CreateDispatchTask

StopSteps ==
  \/ StopCall
  \/ \E i \in Modules : StopModule(i)
  \/ CancelTasks
  \/ \E t \in TaskIds : ObserveCancel(t)

DispatchSteps ==
  \/ DispatchReceive
  \/ DispatchWake
  \/ \E result \in GatewayResults : GatewayReturn(result)

SubscriberSteps ==
  \/ \E t \in Subscribers : SubscriberBegin(t)
  \/ \E t \in Subscribers : SubscriberReceive(t)
  \/ \E t \in Subscribers : SubscriberServiceReturn(t)
  \/ \E t \in Subscribers : SubscriberWake(t)

ProducerSteps ==
  \/ WebCamStep
  \/ SpeakersStep
  \/ \E vad \in VadOutcomes, dt \in 1..SilenceTimeout : VADStep(vad, dt)

ExternalSteps == \E e \in ExtEvents : ExternalEmit(e[1], e[2])

(* The whole agent *)
Next ==
  \/ StartSteps
  \/ StopSteps
  \/ DispatchSteps
  \/ SubscriberSteps
  \/ ProducerSteps
  \/ ExternalSteps

Spec == Init /\ [][Next]_vars

(* AgentCore.start() and AgentCore.stop() and the cancellation they cause *)
NextLifecycle ==
  \/ StartSteps
  \/ StopSteps

SpecLifecycle == Init /\ [][NextLifecycle]_vars

(* The bus with its consumers: the STT and TTS loops, the dispatch loop,   *)
(* and publishers emitting any event.                                      *)
NextBus ==
  \/ StartSteps
  \/ DispatchReceive
  \/ DispatchWake
  \/ \E result \in GatewayEffects : GatewayReturn(result)
  \/ SubscriberSteps
  \/ ExternalSteps

SpecBus == Init /\ [][NextBus]_vars

(* The chat workflow: the dispatch loop fed with events of every type and   *)
(* payload shape, the gateway answering in every way.                      *)
NextChat ==
  \/ StartSteps
  \/ DispatchSteps
  \/ \E e \in ChatEvents : ExternalEmit(e[1], e[2])

SpecChat == Init /\ [][NextChat]_vars

(* The segmentation: process_audio_chunk fed with chunks classified either  *)
(* way at any pace.                                                        *)
NextSegmentation == FeedChunk

SpecSegmentation == Init /\ [][NextSegmentation]_vars

(* The classifier alone, called on any audio of at most a window *)
NextVad == ClassifyAudio

SpecVad == InitAudio(AudioInputs) /\ [][NextVad]_vars

(* The segmentation loop from start to shutdown: every read and every      *)
(* classification can fail.                                                *)
NextVadLoop ==
  \/ StartSteps
  \/ StopSteps
  \/ \E vad \in VadOutcomes, dt \in 1..SilenceTimeout : VADStep(vad, dt)

SpecVadLoop == Init /\ [][NextVadLoop]_vars

(* The voice pipeline from start to shutdown, with no other publisher: the *)
(* VAD loop feeds the STT loop, whose transcriptions the dispatch loop     *)
(* sends to the gateway.  The WebCam task is created and cancelled like    *)
(* the others but gets no turn here: its frames are consumed by no loop.   *)
(* The stream delivers a chunk at every tick and the classifier decides.    *)
NextAgent ==
  \/ StartSteps
  \/ StopSteps
  \/ DispatchReceive
  \/ \E result \in GatewayEffects : GatewayReturn(result)
  \/ \E t \in Subscribers : SubscriberBegin(t)
  \/ \E t \in Subscribers : SubscriberReceive(t)
  \/ \E t \in Subscribers : SubscriberServiceReturn(t)
  \/ \E vad \in VadDecisions : VADStep(vad, 1)
  \/ SpeakersStep

SpecAgent == Init /\ [][NextAgent]_vars

(* The event loop keeps running the tasks that are ready: while a task     *)
(* into which a CancelledError was thrown has not been resumed, one is.    *)
FairSpecAgent == SpecAgent /\ WF_vars(\E t \in TaskIds : ObserveCancel(t))

(* The dispatch loop is resumed when an event is in the default queue or   *)
(* its sleep is over, and every gateway call returns or raises.            *)
FairSpecBus ==
  /\ SpecBus
  /\ WF_vars(DispatchReceive)
  /\ WF_vars(DispatchWake)
  /\ WF_vars(\E result \in GatewayEffects : GatewayReturn(result))

(* ======================= properties ======================= *)

HasCall(op, m) == \E k \in 1..Len(calls) : calls[k] = Log(op, m)

Pos(op, m) == CHOOSE k \in 1..Len(calls) : calls[k] = Log(op, m)

(* if b was executed, a was executed before it *)
Before(aop, am, bop, bm) ==
  HasCall(bop, bm) => (HasCall(aop, am) /\ Pos(aop, am) < Pos(bop, bm))

InTasks(t) == \E k \in 1..Len(tasks) : tasks[k] = t

(* C5: start() takes the modules in configured order: module i's start()   *)
(* has completed before its loop task is created and before start() is     *)
(* invoked on module i+1, and the dispatch task is created after the loop  *)
(* task of every module.                                                   *)
C5_StartOrder ==
  /\ \A i \in Modules : Before("started", i, "create_task", i)
  /\ \A i \in Modules : taskPc[i] # "none" => HasCall("started", i)
  /\ \A i \in 1..(NumModules - 1) : Before("started", i, "start", i + 1)
  /\ \A i \in Modules : Before("create_task", i, "create_task", Dispatch)
  /\ taskPc[Dispatch] # "none" => \A i \in Modules : InTasks(i)

C5_Witness == startPc = <<"done", 0>> /\ Len(tasks) = NumModules + 1

(* C6: when module k's start() raises, start() ends with that exception:   *)
(* no later module is started, neither k nor a later module gets a loop    *)
(* task, and the dispatch task is not created.                             *)
C6_StartFailureAborts ==
  \A k \in Modules :
    HasCall("start_raised", k) =>
      /\ startPc = <<"failed", k>>
      /\ \A j \in Modules : j > k => ~HasCall("start", j)
      /\ \A j \in Modules : j >= k => (taskPc[j] = "none" /\ ~InTasks(j))
      /\ taskPc[Dispatch] = "none" /\ ~InTasks(Dispatch)

C6_Witness == startPc = <<"failed", STT>> /\ Len(tasks) = 2 /\ stopPc = <<"idle", 0>>

C7_StopOrder ==
  /\ \A i \in 1..(NumModules - 1) : Before("stop", i, "stop", i + 1)
  /\ \A t \in TaskIds : \A i \in Modules : Before("stop", i, "cancel", t)
  /\ \A t \in TaskIds : cancelReq[t] => HasCall("cancel", t)
  /\ stopPc = <<"done", 0>> =>
       /\ \A i \in Modules : HasCall("stop", i)
       /\ \A t \in TaskIds : InTasks(t) => HasCall("cancel", t)

C7_Witness ==
  /\ stopPc = <<"done", 0>>
  /\ Len(tasks) = NumModules + 1
  /\ \A t \in TaskIds : cancelReq[t]

(* C8: when a module's stop() raised, stop() has still been invoked on     *)
(* every module and cancellation requested for every task by the time      *)
(* AgentCore.stop() ends.                                                  *)
C8_StopSurvivesRaise ==
  (stopPc[1] \in {"done", "failed"} /\ \E k \in Modules : HasCall("stop_raised", k)) =>
     /\ \A i \in Modules : HasCall("stop", i)
     /\ \A t \in TaskIds : InTasks(t) => HasCall("cancel", t)

(* ---------------- event bus ---------------- *)

OfType(seq, T) == SelectSeq(seq, LAMBDA e : e.type = T)
Since(seq, n) == SelectSeq(seq, LAMBDA e : e.id >= n)
IsSuffix(a, b) == Len(a) <= Len(b) /\ a = SubSeq(b, Len(b) - Len(a) + 1, Len(b))
Elems(seq) == {seq[k] : k \in 1..Len(seq)}
Emitted == default_queue.hist
QueuesOf(T) == IF T \in DOMAIN subscribers THEN Elems(subscribers[T]) ELSE {}

(* C1: a subscriber that calls listen(T) in a loop has, whenever it waits
   with nothing pending, received exactly the events of type T emitted since
   its first listen call, each once and in emit order. *)
C1_LoopingSubscriberReceivesAll ==
  \A t \in Subscribers :
    (taskPc[t] = "listen" /\ QLen(subscribers[ListenType(t)][subQ[t]]) = 0)
      => received[t] = Since(OfType(Emitted, ListenType(t)), firstListen[t])

(* C2: an emit of an event of type T puts the event once on the default queue
   and once on every queue registered for T at that moment, on no queue of
   another type, and creates no entry for T in the subscriber table. *)
C2_EmitDelivery ==
  [][nextId' = nextId + 1 =>
       LET ev == Emitted'[Len(Emitted')] IN
         /\ ev.id = nextId
         /\ Emitted' = Append(Emitted, ev)
         /\ DOMAIN subscribers \subseteq DOMAIN subscribers'
         /\ \A T \in DOMAIN subscribers : \A i \in 1..Len(subscribers[T]) :
              subscribers'[T][i].hist =
                IF T = ev.type THEN Append(subscribers[T][i].hist, ev)
                               ELSE subscribers[T][i].hist
         /\ \A T \in DOMAIN subscribers' : \A i \in 1..Len(subscribers'[T]) :
              i > NumQueues(subscribers, T) => subscribers'[T][i].hist = <<>>
         /\ ev.type \notin DOMAIN subscribers => ev.type \notin DOMAIN subscribers'
  ]_vars

(* an event delivered to a registered queue of its type while another type has
   a queue without it, and an event of a type nobody listens to *)
C2_Witness ==
  \E a \in Elems(Emitted), b \in Elems(Emitted) :
    /\ a.type \in DOMAIN subscribers
    /\ \A q \in QueuesOf(a.type) : a \in Elems(q.hist) \/ q.hist = <<>>
    /\ \E q \in QueuesOf(a.type) : a \in Elems(q.hist)
    /\ \E T \in DOMAIN subscribers \ {a.type} : QueuesOf(T) # {}
    /\ b.type \notin DOMAIN subscribers

ReceivedBy(t, n) == \E k \in 1..Len(received[t]) : received[t][k].id = n

(* C3: once the dispatch task exists, every emitted event is eventually
   returned to it by listen(), and the events of one publisher are returned
   in the order that publisher emitted them. *)
C3_DefaultConsumerReceivesAll ==
  /\ \A n \in 1..MaxEmits :
       (n < nextId /\ taskPc[Dispatch] # "none") ~> ReceivedBy(Dispatch, n)
  /\ [](\A i, j \in 1..Len(received[Dispatch]) :
          (i < j /\ received[Dispatch][i].src = received[Dispatch][j].src)
            => received[Dispatch][i].id < received[Dispatch][j].id)

(* the dispatch task has received events of two publishers, two of them from
   the same one *)
C3_Witness ==
  \E i, j, k \in 1..Len(received[Dispatch]) :
    /\ i < j
    /\ received[Dispatch][i].src = received[Dispatch][j].src
    /\ received[Dispatch][k].src # received[Dispatch][i].src

(* C4: no queue of the bus is ever full, so an emit never waits for a
   consumer: every registered queue holds a suffix of the events of its type
   whatever its reader does, and the default queue holds them all. *)
C4_EmitNeverBlocks ==
  /\ ~Full(default_queue)
  /\ \A n \in 1..Len(Emitted) : Emitted[n].id = n
  /\ Len(Emitted) = nextId - 1
  /\ \A T \in DOMAIN subscribers : \A q \in QueuesOf(T) :
       ~Full(q) /\ IsSuffix(q.hist, OfType(Emitted, T))

(* a queue nobody reads any more holds a backlog: its last event never reached
   the subscriber, now waiting on a later queue, yet the emit went through and
   the dispatch task received the event *)
C4_Witness ==
  \E t \in Subscribers :
    \E i \in 1..(subQ[t] - 1) :
      LET q == subscribers[ListenType(t)][i] IN
        /\ QLen(q) >= 1
        /\ ReceivedBy(Dispatch, q.hist[Len(q.hist)].id)
        /\ ~ReceivedBy(t, q.hist[Len(q.hist)].id)
        /\ taskPc[t] = "listen"

(* ---------------- task cancellation and error recovery ---------------- *)

(* C9: after stop() has cancelled the tasks, every task ends: a cancelled
   task takes no step other than ending, and it does end. *)
C9_CancelledTasksTerminate ==
  /\ (stopPc = <<"done", 0>>) ~> (\A t \in TaskIds : InTasks(t) => taskPc[t] = "done")
  /\ [][\A t \in TaskIds : cancelReq[t] => taskPc'[t] \in {taskPc[t], "done"}]_vars

(* all six tasks have ended, the dispatch loop cancelled inside the gateway
   call, the VAD loop inside its error sleep, the TTS loop inside listen *)
C9_Witness ==
  /\ \A t \in TaskIds : taskPc[t] = "done"
  /\ cancelledAt[Dispatch] = "gateway"
  /\ cancelledAt[VAD] = "errsleep"
  /\ cancelledAt[TTS] = "listen"

(* C10: an error raised while an event is processed never ends the dispatch
   loop: the loop sleeps, listens again and receives the next event. *)
C10_DispatchSurvivesErrors ==
  /\ [](taskPc[Dispatch] # "done")
  /\ (taskPc[Dispatch] = "errsleep") ~> (taskPc[Dispatch] = "listen")
  /\ \A n \in 1..MaxEmits :
       (n \in dispErrors /\ n + 1 < nextId) ~> ReceivedBy(Dispatch, n + 1)

(* the processing of an event raised and a later event was received *)
C10_Witness ==
  \E n \in dispErrors : \E e \in Elems(received[Dispatch]) : e.id > n /\ taskPc[Dispatch] = "listen"

(* ---------------- chat workflow ---------------- *)

(* The event the dispatch loop receives in this step *)
LastReceived == received'[Dispatch][Len(received'[Dispatch])]

NumTurns(role, id) ==
  Cardinality({k \in 1..Len(chat_history) : chat_history[k] = Turn(role, id)})

NumResponses(id) ==
  Cardinality({n \in 1..Len(Emitted) :
                 Emitted[n].type = "agent_response" /\ Emitted[n].ref = id})

NumGatewayCalls(id) ==
  Cardinality({k \in 1..Len(gatewayCalls) : gatewayCalls[k] = id})

(* C11: when the dispatch loop receives a transcription whose text is
   absent, empty or made of spaces, it calls no gateway, changes no chat
   history, publishes nothing and goes on listening; without any payload the
   loop logs the error and keeps running too. *)
C11_BlankTranscriptionIgnored ==
  [][(Len(received'[Dispatch]) = Len(received[Dispatch]) + 1
        /\ LastReceived.type = "transcription"
        /\ LastReceived.payload \in {"blank", "space", "notext", None})
      => /\ gatewayCalls' = gatewayCalls
         /\ chat_history' = chat_history
         /\ nextId' = nextId
         /\ taskPc'[Dispatch] = IF LastReceived.payload = None THEN "errsleep" ELSE "listen"
  ]_vars

(* a transcription made of spaces and one without text were received, and
   the loop is listening with nothing called and nothing published by it *)
C11_Witness ==
  /\ \E i, j \in 1..Len(received[Dispatch]) :
       /\ received[Dispatch][i].type = "transcription"
       /\ received[Dispatch][i].payload = "space"
       /\ received[Dispatch][j].type = "transcription"
       /\ received[Dispatch][j].payload = "notext"
  /\ taskPc[Dispatch] = "listen"
  /\ gatewayCalls = <<>>
  /\ chat_history = <<>>

(* C12: the user turn of a transcription is in the chat history from the
   moment the gateway is called for it, whatever the call then does. *)
C12_UserTurnBeforeGateway ==
  \A k \in 1..Len(gatewayCalls) : NumTurns("user", gatewayCalls[k]) = 1

(* C13: a reply of the gateway appends one assistant turn and publishes one
   agent_response for the transcription, nothing else publishes one, and the
   number of agent_response events equals the number of assistant turns. *)
C13_ReplyPublishedOnce ==
  /\ Cardinality({n \in 1..Len(Emitted) : Emitted[n].type = "agent_response"})
       = Cardinality({k \in 1..Len(chat_history) : chat_history[k].role = "assistant"})
  /\ \A n \in 1..Len(Emitted) :
       Emitted[n].type = "agent_response" =>
         /\ Emitted[n].src = Dispatch
         /\ \E k \in 1..Len(gatewayResults) :
              gatewayCalls[k] = Emitted[n].ref /\ gatewayResults[k] = "dict_response"
  /\ \A k \in 1..Len(gatewayResults) :
       gatewayResults[k] = "dict_response" =>
         /\ NumTurns("assistant", gatewayCalls[k]) = 1
         /\ NumResponses(gatewayCalls[k]) = 1
         /\ \E j \in 1..(Len(chat_history) - 1) :
              /\ chat_history[j] = Turn("user", gatewayCalls[k])
              /\ chat_history[j + 1] = Turn("assistant", gatewayCalls[k])

(* one transcription got a reply, which was published, and another got an
   error body, which was not *)
C13_Witness ==
  \E k, l \in 1..Len(gatewayResults) :
    /\ gatewayResults[k] = "dict_response"
    /\ NumResponses(gatewayCalls[k]) = 1
    /\ gatewayResults[l] = "dict_error"

(* C14: after the gateway returned an error body for a transcription, the
   chat history holds the user turn of that transcription and no assistant
   turn for it, and no agent_response was published for it. *)
C14_ErrorValueKeepsUserTurn ==
  \A k \in 1..Len(gatewayResults) :
    gatewayResults[k] \in {"dict_error", "dict_both"} =>
      /\ NumTurns("user", gatewayCalls[k]) = 1
      /\ NumTurns("assistant", gatewayCalls[k]) = 0
      /\ NumResponses(gatewayCalls[k]) = 0

(* the gateway returned an error body and the user turn is the last turn *)
C14_Witness ==
  \E k \in 1..Len(gatewayResults) :
    /\ gatewayResults[k] = "dict_error"
    /\ chat_history # <<>>
    /\ chat_history[Len(chat_history)] = Turn("user", gatewayCalls[k])

(* C15: when the gateway call raises, no agent_response is published and no
   assistant turn appended for the transcription, the gateway is called once
   for it, and the dispatch loop is back at listen, never ended. *)
C15_GatewayRaiseSurvived ==
  /\ [](\A k \in 1..Len(gatewayResults) :
          gatewayResults[k] = "raise" =>
            /\ NumResponses(gatewayCalls[k]) = 0
            /\ NumTurns("assistant", gatewayCalls[k]) = 0
            /\ NumGatewayCalls(gatewayCalls[k]) = 1
            /\ taskPc[Dispatch] # "done")
  /\ [][(Len(gatewayResults') = Len(gatewayResults) + 1
           /\ gatewayResults'[Len(gatewayResults')] = "raise")
         => taskPc'[Dispatch] = "listen"]_vars

(* a gateway call raised and the next transcription got its reply published *)
C15_Witness ==
  \E k, l \in 1..Len(gatewayResults) :
    /\ k < l
    /\ gatewayResults[k] = "raise"
    /\ gatewayResults[l] = "dict_response"
    /\ NumResponses(gatewayCalls[l]) = 1

(* C16: when the dispatch loop receives an event of another type than
   transcription, it calls no gateway, publishes no event and leaves the chat
   history unchanged. *)
C16_OtherTypesNoEffect ==
  [][(Len(received'[Dispatch]) = Len(received[Dispatch]) + 1
        /\ LastReceived.type # "transcription")
      => /\ gatewayCalls' = gatewayCalls
         /\ nextId' = nextId
         /\ chat_history' = chat_history
         /\ taskPc'[Dispatch] # "gateway"
  ]_vars

(* the dispatch loop has received the agent_response it published itself and
   an event of a type it has no branch for, and nothing followed *)
C16_Witness ==
  /\ \E i \in 1..Len(received[Dispatch]) :
       /\ received[Dispatch][i].type = "agent_response"
       /\ received[Dispatch][i].src = Dispatch
  /\ \E j \in 1..Len(received[Dispatch]) : received[Dispatch][j].type = "audio_chunk"
  /\ Len(gatewayCalls) = 1

(* Gateway calls that have neither returned nor raised *)
InFlight == Len(gatewayCalls) - Len(gatewayResults)

(* C28: the dispatch loop handles one event at a time: at most one gateway
   call is in flight, no event is taken from the default queue while it is,
   the chat history changes only when the dispatch task resumes from the
   call, and the user turns are in the order in which their transcription
   events were published. *)
C28_OneEventAtATime ==
  /\ [](InFlight \in {0, 1} /\ (InFlight = 1 <=> taskPc[Dispatch] = "gateway"))
  /\ [][taskPc[Dispatch] = "gateway" =>
          /\ received'[Dispatch] = received[Dispatch]
          /\ default_queue'.rd = default_queue.rd]_vars
  /\ [][chat_history' # chat_history =>
          /\ taskPc[Dispatch] = "gateway"
          /\ Len(gatewayResults') = Len(gatewayResults) + 1]_vars
  /\ [](\A i, j \in 1..Len(chat_history) :
          (i < j /\ chat_history[i].role = "user" /\ chat_history[j].role = "user")
            => chat_history[i].content < chat_history[j].content)

(* a gateway call is pending for a second transcription while a later event
   waits in the default queue, the turn of the first being in the history *)
C28_Witness ==
  /\ taskPc[Dispatch] = "gateway"
  /\ QLen(default_queue) >= 1
  /\ \E k \in 1..Len(chat_history) :
       chat_history[k].role = "user" /\ chat_history[k].content < dispEvent.id

IsPrefix(a, b) == Len(a) <= Len(b) /\ a = SubSeq(b, 1, Len(a))

(* C29: the chat history only grows by appending, and every assistant turn
   in it comes right after the user turn of the same transcription. *)
C29_HistoryAppendOnly ==
  /\ [][IsPrefix(chat_history, chat_history')]_vars
  /\ [](\A k \in 1..Len(chat_history) :
          chat_history[k].role = "assistant" =>
            (k > 1 /\ chat_history[k - 1] = Turn("user", chat_history[k].content)))

(* a round-trip with a reply followed by the user turn of the next one *)
C29_Witness ==
  /\ Len(chat_history) = 3
  /\ chat_history[2].role = "assistant"
  /\ chat_history[3].role = "user"

(* The events on queue i of type T before this step *)
HistBefore(T, i) ==
  IF i <= NumQueues(subscribers, T) THEN subscribers[T][i].hist ELSE <<>>

(* C30: a queue is registered empty and gets only the events of its type
   emitted while it is registered, so listen(T) never returns an event
   emitted before the call registered its queue: it returns the first event
   of type T emitted after that, and the events a subscriber receives were
   emitted after its first call, each later than the one before. *)
C30_NoReplay ==
  /\ [][\A T \in DOMAIN subscribers' : \A i \in 1..Len(subscribers'[T]) :
          LET old == HistBefore(T, i)
              new == subscribers'[T][i].hist
          IN /\ IsPrefix(old, new)
             /\ i > NumQueues(subscribers, T) => new = <<>>
             /\ \A k \in (Len(old) + 1)..Len(new) :
                  new[k].type = T /\ new[k].id = nextId /\ nextId' = nextId + 1
     ]_vars
  /\ [][\A t \in Subscribers :
          Len(received'[t]) = Len(received[t]) + 1 =>
            LET q == subscribers[ListenType(t)][subQ[t]]
            IN /\ q.rd = 0
               /\ received'[t][Len(received'[t])] = q.hist[1]
     ]_vars
  /\ [](\A t \in Subscribers : \A k \in 1..Len(received[t]) :
          /\ received[t][k].type = ListenType(t)
          /\ received[t][k].id >= firstListen[t]
          /\ k > 1 => received[t][k].id > received[t][k - 1].id)

(* a subscriber has received an event of its type and not an earlier one,
   emitted before the call registered its queue *)
C30_Witness ==
  \E t \in Subscribers : \E e \in Elems(Emitted) :
    /\ received[t] # <<>>
    /\ e.type = ListenType(t)
    /\ e.id < received[t][Len(received[t])].id
    /\ ~ReceivedBy(t, e.id)

(* The listen(T) calls task t has made so far: the ones that returned an
   event, and the one it is suspended in or was cancelled in *)
ListenCalls(t) ==
  Len(received[t]) + (IF taskPc[t] = "listen" \/ cancelledAt[t] = "listen" THEN 1 ELSE 0)

RECURSIVE SumCalls(_, _)
SumCalls(ts, T) ==
  IF ts = {} THEN 0
  ELSE LET t == CHOOSE x \in ts : TRUE
       IN (IF ListenType(t) = T THEN ListenCalls(t) ELSE 0) + SumCalls(ts \ {t}, T)

(* C31: every listen(T) call registers one new queue for T and no queue is
   ever removed: T has as many queues as listen(T) calls were made; a queue
   is read at most once, by the call that registered it, and a queue whose
   call has returned still gets every later event of type T, which stays
   on it unread. *)
C31_QueuesNeverRemoved ==
  /\ [](\A T \in EventTypes : NumQueues(subscribers, T) = SumCalls(Subscribers, T))
  /\ [](\A T \in DOMAIN subscribers : \A i \in 1..Len(subscribers[T]) :
          LET q == subscribers[T][i]
          IN /\ q.rd <= 1
             /\ q.hist # <<>> => q.hist = Since(OfType(Emitted, T), q.hist[1].id))
  /\ [][\A T \in DOMAIN subscribers :
          /\ T \in DOMAIN subscribers'
          /\ Len(subscribers'[T]) >= Len(subscribers[T])
          /\ \A i \in 1..Len(subscribers[T]) :
               LET q == subscribers[T][i]
                   r == subscribers'[T][i]
               IN /\ IsPrefix(q.hist, r.hist)
                  /\ r.rd >= q.rd
                  /\ q.rd = 1 => /\ r.rd = 1
                                 /\ QLen(r) = QLen(q) + Len(OfType(Emitted', T))
                                                      - Len(OfType(Emitted, T))
     ]_vars

(* the STT loop is in its second listen call, and the queue of its first
   call, which returned, holds a later event that nothing will read *)
C31_Witness ==
  /\ taskPc[STT] = "listen"
  /\ NumQueues(subscribers, "audio_ready_for_stt") = 2
  /\ subQ[STT] = 2
  /\ subscribers["audio_ready_for_stt"][1].rd = 1
  /\ QLen(subscribers["audio_ready_for_stt"][1]) = 1
  /\ QLen(subscribers["audio_ready_for_stt"][2]) = 1

(* ---------------- segmentation ---------------- *)

(* A chunk is processed in this step: the clock read by process_audio_chunk
   is later than at the previous chunk *)
ChunkStep == clock' # clock

PublishedNothing == Emitted' = Emitted

PublishedOne(T) ==
  /\ Len(Emitted') = Len(Emitted) + 1
  /\ SubSeq(Emitted', 1, Len(Emitted)) = Emitted
  /\ Emitted'[Len(Emitted')].type = T
  /\ Emitted'[Len(Emitted')].src = VAD

NumEmitted(T) == Cardinality({n \in 1..Len(Emitted) : Emitted[n].type = T})

(* C17: as long as every chunk fed since the initial state was classified as
   silence, the state is SILENT, no time of last speech is recorded and
   neither speech_start nor audio_ready_for_stt has been published. *)
C17_AllSilenceStaysSilent ==
  ~lastChunk.heardSpeech =>
    /\ ~speech_detected
    /\ last_speech_time = NoTime
    /\ NumEmitted("speech_start") = 0
    /\ NumEmitted("audio_ready_for_stt") = 0

(* silent chunks were fed over more than twice the silence timeout *)
C17_Witness ==
  /\ ~lastChunk.heardSpeech
  /\ lastChunk.now > 2 * SilenceTimeout
  /\ Len(speech_buffer) = MaxBuffer

(* C18: a chunk classified as speech sets SPEAKING and last_speech_time = now;
   it publishes one speech_start when the state was SILENT and nothing when
   it was SPEAKING; no other chunk publishes speech_start. *)
C18_SpeechStartOnTransition ==
  [][ChunkStep =>
       /\ lastChunk'.is_speech =>
            /\ speech_detected'
            /\ last_speech_time' = lastChunk'.now
            /\ IF speech_detected THEN PublishedNothing ELSE PublishedOne("speech_start")
       /\ ~lastChunk'.is_speech => ~PublishedOne("speech_start")
  ]_vars

(* a chunk classified as speech arrived while SPEAKING: the one speech_start
   published is that of the transition *)
C18_Witness ==
  /\ lastChunk.is_speech
  /\ lastChunk.emitted = None
  /\ speech_detected
  /\ last_speech_time = lastChunk.now
  /\ NumEmitted("speech_start") = 1

(* C19: while SPEAKING, a silent chunk arriving less than the silence timeout
   after the last speech publishes nothing, leaves the state SPEAKING and
   last_speech_time unchanged, and is appended to the utterance buffer. *)
C19_ShortGapKeepsSpeaking ==
  [][(ChunkStep /\ ~lastChunk'.is_speech /\ speech_detected
        /\ lastChunk'.now - last_speech_time < SilenceTimeout)
      => /\ PublishedNothing
         /\ speech_detected'
         /\ last_speech_time' = last_speech_time
         /\ Len(speech_buffer') = Min(Len(speech_buffer) + lastChunk'.size, MaxBuffer)
  ]_vars

(* a silent chunk within the timeout was added to the buffer of a running
   utterance *)
C19_Witness ==
  /\ ~lastChunk.is_speech
  /\ speech_detected
  /\ lastChunk.now - last_speech_time < SilenceTimeout
  /\ Len(speech_buffer) >= 2
  /\ NumEmitted("audio_ready_for_stt") = 0

(* C20: while SPEAKING, the first silent chunk at or past last_speech_time +
   silence timeout publishes one audio_ready_for_stt and resets the state to
   SILENT; a silent chunk while SILENT publishes nothing, and no chunk
   classified as speech publishes audio_ready_for_stt. *)
C20_SpeechEndOnce ==
  /\ [](speech_detected => last_speech_time # NoTime)
  /\ [][ChunkStep =>
          /\ (~lastChunk'.is_speech /\ speech_detected
                /\ lastChunk'.now - last_speech_time >= SilenceTimeout)
             => /\ PublishedOne("audio_ready_for_stt")
                /\ ~speech_detected'
                /\ last_speech_time' = NoTime
                /\ speech_buffer' = <<>>
          /\ (~lastChunk'.is_speech /\ ~speech_detected)
             => PublishedNothing /\ ~speech_detected'
          /\ lastChunk'.is_speech => ~PublishedOne("audio_ready_for_stt")
     ]_vars

(* the utterance was published once, past a short gap, and a further silent
   chunk published nothing *)
C20_Witness ==
  /\ ~lastChunk.is_speech
  /\ lastChunk.emitted = None
  /\ ~speech_detected
  /\ NumEmitted("audio_ready_for_stt") = 1
  /\ Emitted[Len(Emitted)].type = "audio_ready_for_stt"

(* C33: between chunks, speech is active exactly when a time of last speech
   is recorded: SILENT has none, SPEAKING has one. *)
C33_SpeakingIffLastSpeechTime ==
  speech_detected <=> (last_speech_time # NoTime)

(* a second utterance is running, in a short gap after its speech, and the
   first one was published, which had reset both fields *)
C33_Witness ==
  /\ NumEmitted("audio_ready_for_stt") = 1
  /\ speech_detected
  /\ ~lastChunk.is_speech
  /\ last_speech_time # NoTime
  /\ last_speech_time < lastChunk.now
  /\ lastChunk.startedAt > 1

(* C21: the audio of an audio_ready_for_stt event holds no sample of a chunk
   that arrived before the chunk that triggered the preceding speech_start:
   it holds the samples accumulated since that speech_start. *)
C21_PayloadSinceSpeechStart ==
  lastChunk.emitted = "audio_ready_for_stt" =>
    \A k \in 1..Len(lastChunk.audio) : lastChunk.audio[k][1] >= lastChunk.startedAt

(* C22: when an utterance has been emitted the whole segmentation state is
   reset: the utterance buffer and the analysis window are empty,
   speech_detected is false and last_speech_time is none. *)
C22_ResetOnEmission ==
  lastChunk.emitted = "audio_ready_for_stt" =>
    /\ speech_buffer = <<>>
    /\ vad_buffer = <<>>
    /\ ~speech_detected
    /\ last_speech_time = NoTime

(* The samples of the chunk processed in this step *)
ChunkRead == Chunk(lastChunk'.seq, lastChunk'.size)

Ascending(buf) ==
  \A i, j \in 1..Len(buf) :
    i < j => (buf[i][1] < buf[j][1] \/ (buf[i][1] = buf[j][1] /\ buf[i][2] < buf[j][2]))

(* C25: the utterance buffer never holds more than its maximum of samples
   nor the analysis window more than its own; a chunk that would exceed a
   maximum drops the oldest samples, and each buffer holds the most recent
   samples in arrival order. *)
C25_BuffersBounded ==
  /\ [](Len(speech_buffer) <= MaxBuffer /\ Len(vad_buffer) <= VadWindow)
  /\ [](Ascending(speech_buffer) /\ Ascending(vad_buffer))
  /\ [][ChunkStep =>
          /\ IsSuffix(vad_buffer', vad_buffer \o ChunkRead)
          /\ Len(vad_buffer') = Min(Len(vad_buffer) + Len(ChunkRead), VadWindow)
          /\ lastChunk'.emitted # "audio_ready_for_stt" =>
               /\ IsSuffix(speech_buffer', speech_buffer \o ChunkRead)
               /\ Len(speech_buffer') = Min(Len(speech_buffer) + Len(ChunkRead), MaxBuffer)
     ]_vars

(* both buffers are full and have dropped samples: the utterance buffer no
   longer holds the first chunk, and the window holds less of the past than
   the utterance buffer *)
C25_Witness ==
  /\ Len(speech_buffer) = MaxBuffer
  /\ Len(vad_buffer) = VadWindow
  /\ speech_buffer[1][1] > 1
  /\ vad_buffer[1] # speech_buffer[1]
  /\ vad_buffer[VadWindow] = <<lastChunk.seq, lastChunk.size>>

(* The events published by the segmentation module, in order *)
VadEvents == SelectSeq(Emitted, LAMBDA e : e.src = VAD)

(* C26: the events published by the segmentation module alternate, starting
   with speech_start: speech_start, audio_ready_for_stt, speech_start, ... *)
C26_EventsAlternate ==
  \A k \in 1..Len(VadEvents) :
    VadEvents[k].type = IF k % 2 = 1 THEN "speech_start" ELSE "audio_ready_for_stt"

(* two utterances were published, each after its speech_start *)
C26_Witness ==
  /\ Len(VadEvents) = 3
  /\ VadEvents[2].type = "audio_ready_for_stt"
  /\ VadEvents[3].type = "speech_start"
  /\ speech_detected

(* C27: a failure of the classifier on one chunk is caught and the chunk is
   processed as a silent one; an exception in an iteration of the loop never
   ends the loop: the loop ends only once the module is stopped or the task
   cancelled, and after its error sleep it reads the next chunk. *)
C27_SegmentationSurvivesErrors ==
  /\ [][(ChunkStep /\ lastChunk'.vad = "raise") =>
          /\ ~lastChunk'.is_speech
          /\ taskPc'[VAD] = "sleep"
          /\ ~PublishedOne("speech_start")
          /\ speech_detected' => speech_detected
          /\ last_speech_time' \in {last_speech_time, NoTime}
          /\ (speech_detected /\ lastChunk'.now - last_speech_time >= SilenceTimeout)
               => PublishedOne("audio_ready_for_stt")
     ]_vars
  /\ [][(taskPc[VAD] \in {"sleep", "errsleep"} /\ taskPc'[VAD] = "done")
          => (~running[VAD] \/ cancelReq[VAD])]_vars
  /\ [][(taskPc[VAD] = "errsleep" /\ taskPc'[VAD] \notin {"errsleep", "done"})
          => (ChunkStep /\ taskPc'[VAD] = "sleep")]_vars

(* the classifier failed on a chunk during an utterance, which went on, then
   a read raised: the loop is in its error sleep and the module running *)
C27_Witness ==
  /\ lastChunk.vad = "raise"
  /\ speech_detected
  /\ taskPc[VAD] = "errsleep"
  /\ running[VAD]

(* ---------------- voice activity decision ---------------- *)

(* The classifier has run to its decision on a window that is not empty *)
Decided == vad_result.returned /\ vad_audio.pcm # <<>> /\ ~vad_result.raised

(* C23: the decision is a majority vote: the window is classified as speech
   if and only if at least two of the three criteria are satisfied. *)
C23_MajorityVote ==
  Decided =>
    (vad_result.is_speech <=>
       \/ vad_result.energy_ok /\ vad_result.zcr_ok
       \/ vad_result.energy_ok /\ vad_result.spectral_ok
       \/ vad_result.zcr_ok /\ vad_result.spectral_ok)

(* a window is speech although its energy is too low: the two other criteria
   are met *)
C23_Witness ==
  /\ Decided
  /\ vad_result.is_speech
  /\ ~vad_result.energy_ok
  /\ vad_result.zcr_ok
  /\ vad_result.spectral_ok

(* The adjacent pairs of samples whose signs differ: one sample negative, the
   other not *)
SignChanges(pcm) ==
  Cardinality({i \in 1..(Len(pcm) - 1) : (pcm[i] < 0) # (pcm[i + 1] < 0)})

(* C24: on a window of n > 1 samples the zero crossings counted are the
   adjacent pairs whose signs differ, and the zero-crossing criterion is met
   if and only if their number divided by n - 1 lies strictly between 0.1 and
   0.5. *)
C24_ZeroCrossingRate ==
  (Decided /\ Len(vad_audio.pcm) > 1) =>
    /\ vad_result.zero_crossings = SignChanges(vad_audio.pcm)
    /\ vad_result.zcr_ok <=>
          /\ 10 * SignChanges(vad_audio.pcm) > Len(vad_audio.pcm) - 1
          /\ 2 * SignChanges(vad_audio.pcm) < Len(vad_audio.pcm) - 1

====
